---- MODULE Spec2Model ----
(***************************************************************************)
(* A model of avl.py: a multiset kept in an AVL tree whose nodes carry a   *)
(* value, a count, a cached height, two child links and a parent link.    *)
(* The heap of Node objects is a sequence of records, an object's         *)
(* identity being its index; every method is an operator from heap states *)
(* to heap states, statement by statement, and an exception is an outcome *)
(* that keeps the assignments made before it was raised.                  *)
(***************************************************************************)
EXTENDS Integers, Sequences, FiniteSets, TLC

\* Bounds of the specification Spec: values 1..MaxVal, at most MaxNodes
\* Node objects, no count above MaxCount.
MaxVal == 3
MaxNodes == 3
MaxCount == 2

\* Bounds of SpecOnce: five values, every count 1.
OnceVal == 5
OnceNodes == 5
OnceCount == 1

\* Bounds of SpecWide: four values in at most three nodes.
WideVal == 4
WideNodes == 3
WideCount == 2

\* Bounds of SpecIns (insert only): seven values, every count 1.
InsVal == 7
InsNodes == 7
InsCount == 1

\* A NullNode instance (falsy, height -1, value None, attribute writes ignored).
NullNode == 0
\* Python's None, the parent of the root.
None == 0

VARIABLES
    nodes,  \* the heap: identity -> Node fields
    root,   \* AVL.root: an identity, or NullNode
    err,    \* the exception the last call raised, or "none"
    op,     \* the last call: [name, value, all]
    pre,    \* the heap and root the last call started from
    trip,   \* when the last two calls were insert(v) of an absent v, returning
            \* normally, and delete(v): the multiset the insert started from
    pc      \* the statements of the module-level script that have run (0 when
            \* the calls are a client's, not the script's)

vars == <<nodes, root, err, op, pre, trip, pc>>

Max(a, b) == IF a >= b THEN a ELSE b
Abs(a) == IF a < 0 THEN -a ELSE a

\* Node.__init__
Node(value, parent) ==
    [value |-> value, count |-> 1, height |-> 0,
     left |-> NullNode, right |-> NullNode, parent |-> parent]

\* raise e
Raise(s, e) == [s EXCEPT !.err = e]

\* n.height, for a Node or a NullNode
Height(s, n) == IF n = NullNode THEN -1 ELSE s.nodes[n].height

\* n.key = val: NullNode.__setattr__ ignores it
SetAttr(s, n, key, val) ==
    IF n = NullNode THEN s ELSE [s EXCEPT !.nodes[n][key] = val]

\* Node.balance
balance(s, n) == Height(s, s.nodes[n].right) - Height(s, s.nodes[n].left)

\* Node.update_height
update_height(s, n) ==
    SetAttr(s, n, "height",
            Max(Height(s, s.nodes[n].left), Height(s, s.nodes[n].right)) + 1)

\* A traversal that yields the right subtree before the left one (the mutant
\* of Preorder).
RECURSIVE PreorderRightFirst(_, _)
PreorderRightFirst(s, n) ==
    IF n = NullNode THEN <<>>
    ELSE <<n>> \o PreorderRightFirst(s, s.nodes[n].right)
               \o PreorderRightFirst(s, s.nodes[n].left)

\* Node.__iter__: the node, its left subtree, its right subtree
RECURSIVE Preorder(_, _)
Preorder(s, n) ==
    IF n = NullNode THEN <<>>
    ELSE <<n>> \o Preorder(s, s.nodes[n].left) \o Preorder(s, s.nodes[n].right)

\* the last node Node.iter_left yields
RECURSIVE iter_left(_, _)
iter_left(s, n) ==
    IF s.nodes[n].left # NullNode THEN iter_left(s, s.nodes[n].left) ELSE n

\* the last node Node.iter_right yields
RECURSIVE iter_right(_, _)
iter_right(s, n) ==
    IF s.nodes[n].right # NullNode THEN iter_right(s, s.nodes[n].right) ELSE n

\* AVL._update_parent_leaf
_update_parent_leaf(s, node, new_node) ==
    LET p == s.nodes[node].parent IN
    IF p # None
    THEN IF s.nodes[p].left = node
         THEN [s EXCEPT !.nodes[p].left = new_node]
         ELSE [s EXCEPT !.nodes[p].right = new_node]
    ELSE [s EXCEPT !.root = new_node]

\* e bound to x in F(x): e is evaluated once, as a statement's result is.
Let(e, F(_)) == CHOOSE r \in {F(x) : x \in {e}} : TRUE

\* The height assignments of AVL._rotate (x the rotated node, y its child).
RotateHeights(s, x, y, side, o_side) ==
    IF Height(s, s.nodes[y][side]) = Height(s, s.nodes[y][o_side])
    THEN Let(SetAttr(s, x, "height", s.nodes[y].height), LAMBDA s1 :
         SetAttr(s1, y, "height", s1.nodes[y].height + 1))
    ELSE SetAttr(s, x, "height", s.nodes[y].height - 1)

\* A _rotate that hangs x on the side of y it came from, y[side] = x (the
\* mutant of _rotate).
_rotate_same_side(s, node, left) ==
    LET side == IF left THEN "left" ELSE "right"
        o_side == IF left THEN "right" ELSE "left"
        x == node
        y == s.nodes[node][side]
    IN Let(_update_parent_leaf(s, x, y), LAMBDA s1 :
       IF y = NullNode
       THEN Raise(s1, "TypeError")
       ELSE Let(RotateHeights(s1, x, y, side, o_side), LAMBDA s2 :
            Let(SetAttr(s2, x, side, s2.nodes[y][o_side]), LAMBDA s3 :
            Let(SetAttr(s3, s3.nodes[x][side], "parent", x), LAMBDA s4 :
            Let(SetAttr(s4, y, side, x), LAMBDA s5 :
            Let(SetAttr(s5, y, "parent", s5.nodes[x].parent), LAMBDA s6 :
            SetAttr(s6, x, "parent", y)))))))

\* AVL._rotate
_rotate(s, node, left) ==
    LET side == IF left THEN "left" ELSE "right"
        o_side == IF left THEN "right" ELSE "left"
        x == node
        y == s.nodes[node][side]
    IN Let(_update_parent_leaf(s, x, y), LAMBDA s1 :
       IF y = NullNode
       THEN Raise(s1, "TypeError")   \* y[side]: a NullNode is not subscriptable
       ELSE Let(RotateHeights(s1, x, y, side, o_side), LAMBDA s2 :
            Let(SetAttr(s2, x, side, s2.nodes[y][o_side]), LAMBDA s3 :
            Let(SetAttr(s3, s3.nodes[x][side], "parent", x), LAMBDA s4 :
            Let(SetAttr(s4, y, o_side, x), LAMBDA s5 :
            Let(SetAttr(s5, y, "parent", s5.nodes[x].parent), LAMBDA s6 :
            SetAttr(s6, x, "parent", y)))))))

\* A _rotate_left that leaves the subtree as it is (the mutant of _rotate_left).
_rotate_left_skipped(s, node) == s

\* AVL._rotate_left
_rotate_left(s, node) == _rotate(s, node, TRUE)

\* AVL._rotate_right
_rotate_right(s, node) == _rotate(s, node, FALSE)

\* AVL.rotate; reading the balance of a NullNode child is an AttributeError
rotate(s, node) ==
    LET b == balance(s, node)
        l == s.nodes[node].left
        r == s.nodes[node].right
    IN IF Abs(b) < 2 THEN s
       ELSE IF b < -1
       THEN IF l = NullNode THEN Raise(s, "AttributeError")
            ELSE IF balance(s, l) < 0 THEN _rotate_left(s, node)
            ELSE IF balance(s, l) > 0
                 THEN Let(_rotate_right(s, l), LAMBDA s1 :
                      IF s1.err # "none" THEN s1 ELSE _rotate_left(s1, node))
            ELSE s
       ELSE IF r = NullNode THEN Raise(s, "AttributeError")
            ELSE IF balance(s, r) > 0 THEN _rotate_right(s, node)
            ELSE IF balance(s, r) < 0
                 THEN Let(_rotate_left(s, r), LAMBDA s1 :
                      IF s1.err # "none" THEN s1 ELSE _rotate_right(s1, node))
            ELSE s

\* self.rotate(node) as _insert and _delete call it on the way back up; the
\* call is noted in s.calls: the node, the tree it found and the tree it left.
Invoke(s, node) ==
    Let(rotate(s, node), LAMBDA r :
    [r EXCEPT !.calls = Append(@, [node |-> node,
                                   was |-> [nodes |-> s.nodes, root |-> s.root],
                                   now |-> [nodes |-> r.nodes, root |-> r.root],
                                   err |-> r.err])])

\* The tail of AVL._insert: height, rotation check, return value.
InsertTail(s, node, h) ==
    Let(SetAttr(s, node, "height", Max(s.nodes[node].height, h + 1)), LAMBDA s1 :
    Let(Invoke(s1, node), LAMBDA s2 :
    IF s2.err # "none" THEN s2 ELSE [s2 EXCEPT !.ret = s2.nodes[node].height]))

\* The else branch of AVL._insert: a new Node linked below node.
InsertNew(s, node, value) ==
    LET side == IF value > s.nodes[node].value THEN "left" ELSE "right"
        new_node == Len(s.nodes) + 1
        old == s.nodes[node][side]
    IN Let([s EXCEPT !.nodes = Append(@, Node(value, node))], LAMBDA s1 :
       Let(IF old # NullNode
           THEN Let(SetAttr(s1, old, "parent", new_node), LAMBDA s2 :
                SetAttr(s2, new_node, "height", s2.nodes[old].height + 1))
           ELSE s1, LAMBDA s3 :
       SetAttr(s3, node, side, new_node)))

\* The first branch of AVL._insert: the value is at node.
InsertFound(s, node) == SetAttr(s, node, "count", s.nodes[node].count + 1)

\* AVL._insert
RECURSIVE _insert(_, _, _)
_insert(s, node, value) ==
    IF node = NullNode
    THEN Raise(s, "TypeError")    \* value < None
    ELSE IF value = s.nodes[node].value
    THEN Let(InsertFound(s, node), LAMBDA s1 : InsertTail(s1, node, 0))
    ELSE IF value < s.nodes[node].value /\ s.nodes[node].right # NullNode
    THEN Let(_insert(s, s.nodes[node].right, value), LAMBDA s1 :
         IF s1.err # "none" THEN s1 ELSE InsertTail(s1, node, s1.ret))
    ELSE IF value > s.nodes[node].value /\ s.nodes[node].left # NullNode
    THEN Let(_insert(s, s.nodes[node].left, value), LAMBDA s1 :
         IF s1.err # "none" THEN s1 ELSE InsertTail(s1, node, s1.ret))
    ELSE Let(InsertNew(s, node, value), LAMBDA s1 : InsertTail(s1, node, 0))

\* A _do_delete that leaves the parent link of the spliced child as it was
\* (the mutant of _do_delete).
_do_delete_unlinked(s, node) ==
    LET l == s.nodes[node].left
        r == s.nodes[node].right
        new_node == IF l # NullNode /\ r = NullNode THEN l
                    ELSE IF r # NullNode /\ l = NullNode THEN r
                    ELSE NullNode
    IN Let(IF new_node # NullNode THEN update_height(s, new_node) ELSE s, LAMBDA s1 :
       _update_parent_leaf(s1, node, new_node))

\* AVL._do_delete
_do_delete(s, node) ==
    LET l == s.nodes[node].left
        r == s.nodes[node].right
        new_node == IF l # NullNode /\ r = NullNode THEN l
                    ELSE IF r # NullNode /\ l = NullNode THEN r
                    ELSE NullNode
    IN Let(IF new_node # NullNode
           THEN Let(update_height(s, new_node), LAMBDA t :
                SetAttr(t, new_node, "parent", t.nodes[node].parent))
           ELSE s, LAMBDA s1 :
       _update_parent_leaf(s1, node, new_node))

\* A choice that takes the right subtree also when the two heights are equal
\* (the mutant of node_to_switch).
node_to_switch_or_equal(s, node) ==
    IF Height(s, s.nodes[node].right) >= Height(s, s.nodes[node].left)
    THEN iter_left(s, s.nodes[node].right)
    ELSE iter_right(s, s.nodes[node].left)

\* The node AVL._delete swaps values with.
node_to_switch(s, node) ==
    IF Height(s, s.nodes[node].right) > Height(s, s.nodes[node].left)
    THEN iter_left(s, s.nodes[node].right)
    ELSE iter_right(s, s.nodes[node].left)

\* The swap of values in AVL._delete.
SwapValues(s, a, b) ==
    LET va == s.nodes[a].value
        vb == s.nodes[b].value
    IN Let(SetAttr(s, a, "value", vb), LAMBDA s1 : SetAttr(s1, b, "value", va))

\* The tail of AVL._delete: height, rotation check.
DeleteTail(s, node) == Let(update_height(s, node), LAMBDA s1 : Invoke(s1, node))

\* A _delete that returns at a NullNode without raising (the mutant of NotFound).
NotFoundSilent(s) == s

\* AVL._delete reaching a NullNode: the value is not in the tree.
NotFound(s) == Raise(s, "ValueError")

\* AVL._delete
RECURSIVE _delete(_, _, _, _)
_delete(s, node, value, all) ==
    IF node = NullNode
    THEN NotFound(s)
    ELSE IF s.nodes[node].value = value /\ ~all /\ s.nodes[node].count > 1
    THEN SetAttr(s, node, "count", s.nodes[node].count - 1)
    ELSE IF s.nodes[node].value = value
            /\ (s.nodes[node].left = NullNode \/ s.nodes[node].right = NullNode)
    THEN _do_delete(s, node)
    ELSE LET found == s.nodes[node].value = value
         IN Let(IF found
                THEN Let(node_to_switch(s, node), LAMBDA m : SwapValues(s, node, m))
                ELSE s, LAMBDA s1 :
            LET lt == value < s1.nodes[node].value
                go_right == IF found THEN ~lt ELSE lt
            IN Let(IF go_right
                   THEN _delete(s1, s1.nodes[node].right, value, all)
                   ELSE _delete(s1, s1.nodes[node].left, value, all), LAMBDA s2 :
               IF s2.err # "none" THEN s2 ELSE DeleteTail(s2, node)))

\* AVL.insert
insert(s0, value) == Let(s0, LAMBDA s : _insert(s, s.root, value))

\* AVL.delete
delete(s0, value, all) == Let(s0, LAMBDA s : _delete(s, s.root, value, all))

----------------------------------------------------------------------------
\* Objects no reference reaches are collected, and the others are renamed
\* to their position in the traversal from the root: an identity is
\* observable only through the equality of references.

\* The objects reachable from the objects S through left, right and parent.
RECURSIVE Closure(_, _)
Closure(s, S) ==
    Let(S \cup UNION {{s.nodes[n].left, s.nodes[n].right, s.nodes[n].parent} \ {0}
                      : n \in S}, LAMBDA T :
    IF T = S THEN S ELSE Closure(s, T))

Live(s) == IF s.root = NullNode THEN {} ELSE Closure(s, {s.root})

RECURSIVE SetToSeq(_)
SetToSeq(S) ==
    IF S = {} THEN <<>>
    ELSE Let(CHOOSE x \in S : \A y \in S : x <= y, LAMBDA m :
         <<m>> \o SetToSeq(S \ {m}))

\* The objects in the order of their new identities: those of the tree as
\* the traversal first meets them, then the others.
Order(s) ==
    Let(Preorder(s, s.root), LAMBDA pr :
    Let(SetToSeq({i \in 1..Len(pr) : \A j \in 1..(i-1) : pr[j] # pr[i]}), LAMBDA first :
    [i \in 1..Len(first) |-> pr[first[i]]]
        \o SetToSeq(Live(s) \ {pr[i] : i \in 1..Len(pr)})))

Collect(s) ==
    Let(Order(s), LAMBDA objs :
    Let([n \in 0..Len(s.nodes) |->
            IF n = 0 \/ \A i \in 1..Len(objs) : objs[i] # n THEN 0
            ELSE CHOOSE i \in 1..Len(objs) : objs[i] = n], LAMBDA new :
    [nodes |-> [i \in 1..Len(objs) |->
                  [s.nodes[objs[i]] EXCEPT !.left = new[@], !.right = new[@],
                                           !.parent = new[@]]],
     root |-> new[s.root],
     err |-> s.err]))

----------------------------------------------------------------------------
\* What the claims are stated in.

\* The objects of a tree: those the traversal from its root yields.
TreeOf(t) == LET pr == Preorder(t, t.root) IN {pr[i] : i \in 1..Len(pr)}

\* The objects of the subtree below the reference n.
Subtree(t, n) == LET pr == Preorder(t, n) IN {pr[i] : i \in 1..Len(pr)}

RECURSIVE SumCounts(_, _)
SumCounts(t, S) ==
    IF S = {} THEN 0
    ELSE LET n == CHOOSE x \in S : TRUE
         IN t.nodes[n].count + SumCounts(t, S \ {n})

\* The multiplicity of v: the counts of the nodes holding v, summed.
Mult(t, v) == SumCounts(t, {n \in TreeOf(t) : t.nodes[n].value = v})

ValuesOf(t) == {t.nodes[n].value : n \in TreeOf(t)}

\* The height of the subtree below n, from the shape alone.
RECURSIVE h(_, _)
h(t, n) ==
    IF n = NullNode THEN -1
    ELSE 1 + Max(h(t, t.nodes[n].left), h(t, t.nodes[n].right))

Balanced(t) ==
    \A n \in TreeOf(t) : Abs(h(t, t.nodes[n].right) - h(t, t.nodes[n].left)) <= 1

HeightsCached(t) ==
    \A n \in TreeOf(t) :
        t.nodes[n].height =
            1 + Max(Height(t, t.nodes[n].left), Height(t, t.nodes[n].right))

Ordered(t) ==
    \A n \in TreeOf(t) :
        /\ \A m \in Subtree(t, t.nodes[n].left) : t.nodes[m].value > t.nodes[n].value
        /\ \A m \in Subtree(t, t.nodes[n].right) : t.nodes[m].value < t.nodes[n].value

ParentsConsistent(t) ==
    \A n \in TreeOf(t) :
        IF n = t.root THEN t.nodes[n].parent = None
        ELSE LET p == t.nodes[n].parent
             IN p \in TreeOf(t) /\ (t.nodes[p].left = n \/ t.nodes[p].right = n)

\* The tree as the last call left it.
Now == [nodes |-> nodes, root |-> root]

----------------------------------------------------------------------------
NoTrip == [on |-> FALSE, values |-> {}, mult |-> <<>>]

\* The state a call starts from.
Cur == [nodes |-> nodes, root |-> root, err |-> "none", ret |-> 0, calls |-> <<>>]

Commit(s, name, value, all) ==
    \E c \in {Collect(s)} :
    /\ nodes' = c.nodes
    /\ root' = c.root
    /\ err' = c.err
    /\ op' = [name |-> name, value |-> value, all |-> all]
    /\ pre' = [nodes |-> nodes, root |-> root]
    /\ trip' = IF /\ name = "delete" /\ ~all
                   /\ op.name = "insert" /\ op.value = value /\ err = "none"
                   /\ value \notin ValuesOf(pre)
                THEN [on |-> TRUE, values |-> ValuesOf(pre),
                      mult |-> [v \in ValuesOf(pre) |-> Mult(pre, v)]]
                ELSE NoTrip

\* A caller goes on after a normal return or after the documented ValueError.
CanCall == err \in {"none", "ValueError"}

\* AVL.__init__ with the one-element list [v]; a longer list is this and the
\* Insert calls of the constructor's loop.
InitWith(vals) ==
    \E v \in vals :
        /\ nodes = <<Node(v, None)>>
        /\ root = 1
        /\ err = "none"
        /\ op = [name |-> "init", value |-> v, all |-> FALSE]
        /\ pre = [nodes |-> <<>>, root |-> NullNode]
        /\ trip = NoTrip
        /\ pc = 0

\* A call of AVL.insert, within the bounds.
Insert(v, maxNodes, maxCount) ==
    /\ CanCall
    /\ Len(nodes) < maxNodes
    /\ \E s \in {insert(Cur, v)} :
          /\ \A n \in 1..Len(s.nodes) : s.nodes[n].count <= maxCount
          /\ Commit(s, "insert", v, FALSE)
    /\ UNCHANGED pc

\* A call of AVL.delete.
Delete(v, all) ==
    /\ CanCall
    /\ \E s \in {delete(Cur, v, all)} : Commit(s, "delete", v, all)
    /\ UNCHANGED pc

Init == InitWith(1..MaxVal)

Next ==
    \/ \E v \in 1..MaxVal : Insert(v, MaxNodes, MaxCount)
    \/ \E v \in 1..MaxVal, all \in BOOLEAN : Delete(v, all)

Spec == Init /\ [][Next]_vars

InitOnce == InitWith(1..OnceVal)

NextOnce ==
    \/ \E v \in 1..OnceVal : Insert(v, OnceNodes, OnceCount)
    \/ \E v \in 1..OnceVal, all \in BOOLEAN : Delete(v, all)

SpecOnce == InitOnce /\ [][NextOnce]_vars

InitWide == InitWith(1..WideVal)

NextWide ==
    \/ \E v \in 1..WideVal : Insert(v, WideNodes, WideCount)
    \/ \E v \in 1..WideVal, all \in BOOLEAN : Delete(v, all)

SpecWide == InitWide /\ [][NextWide]_vars

InitIns == InitWith(1..InsVal)

NextIns == \E v \in 1..InsVal : Insert(v, InsNodes, InsCount)

SpecIns == InitIns /\ [][NextIns]_vars

\* The module-level script: avl = AVL(lst) and four deletes, avl1 = AVL(lst1),
\* avl2 = AVL(lst2). The variables hold the tree the script is working on.
lst == <<41, 20, 65, 29, 50, 11, 26, 23, 55>>
lst1 == <<4, 64, 8, 95, 68, 80, 75, 14, 10>>
\* avl.delete(41); avl.delete(55); avl.delete(20); avl.delete(29)
deleted == <<41, 55, 20, 29>>
\* lst2 = [randrange(100) for i in range(50)], as DemoLen draws from
\* 0..DemoRange-1.
DemoRange == 3
DemoLen == 5

\* pc when AVL(lst) has returned, when the deletes have, when AVL(lst1) has.
AtBuilt == Len(lst)
AtDeleted == AtBuilt + Len(deleted)
AtBuilt1 == AtDeleted + Len(lst1)

\* self.root = Node(values[0]) of a new AVL.
New(v) ==
    /\ nodes' = <<Node(v, None)>>
    /\ root' = 1
    /\ err' = "none"
    /\ op' = [name |-> "init", value |-> v, all |-> FALSE]
    /\ pre' = [nodes |-> <<>>, root |-> NullNode]
    /\ trip' = NoTrip
    /\ pc' = pc + 1

\* One self.insert(value) of a constructor's loop.
Loop(value) ==
    /\ err = "none"
    /\ \E s \in {insert(Cur, value)} : Commit(s, "insert", value, FALSE)
    /\ pc' = pc + 1

InitDemo ==
    /\ nodes = <<Node(lst[1], None)>>
    /\ root = 1
    /\ err = "none"
    /\ op = [name |-> "init", value |-> lst[1], all |-> FALSE]
    /\ pre = [nodes |-> <<>>, root |-> NullNode]
    /\ trip = NoTrip
    /\ pc = 1

DemoBuild == pc \in 1..(AtBuilt - 1) /\ Loop(lst[pc + 1])

DemoDelete ==
    /\ pc \in AtBuilt..(AtDeleted - 1)
    /\ err = "none"
    /\ \E v \in {deleted[pc - AtBuilt + 1]} :
       \E s \in {delete(Cur, v, FALSE)} : Commit(s, "delete", v, FALSE)
    /\ pc' = pc + 1

DemoNew1 == pc = AtDeleted /\ err = "none" /\ New(lst1[1])

DemoBuild1 == pc \in (AtDeleted + 1)..(AtBuilt1 - 1) /\ Loop(lst1[pc - AtDeleted + 1])

DemoNew2 == pc = AtBuilt1 /\ err = "none" /\ \E v \in 0..(DemoRange - 1) : New(v)

DemoBuild2 ==
    /\ pc \in (AtBuilt1 + 1)..(AtBuilt1 + DemoLen - 1)
    /\ \E v \in 0..(DemoRange - 1) : Loop(v)

NextDemo ==
    \/ DemoBuild
    \/ DemoDelete
    \/ DemoNew1
    \/ DemoBuild1
    \/ DemoNew2
    \/ DemoBuild2

SpecDemo == InitDemo /\ [][NextDemo]_vars

----------------------------------------------------------------------------
\* The last call was a delete of a value the tree held, and it returned.
DeletedHeld ==
    op.name = "delete" /\ op.value \in ValuesOf(pre) /\ err = "none"

\* C1: a delete of a held value v that returns lowers the multiplicity of v
\* by 1 (to 0 with all=True) and leaves the multiplicity of every other
\* value as it was.
C1_DeleteChangesOnlyTarget ==
    DeletedHeld =>
        /\ Mult(Now, op.value) = IF op.all THEN 0 ELSE Mult(pre, op.value) - 1
        /\ \A w \in (ValuesOf(pre) \cup ValuesOf(Now)) \ {op.value} :
               Mult(Now, w) = Mult(pre, w)

\* C2: after a delete that returns normally every node has
\* |h(right) - h(left)| <= 1, h being the height of the shape.
C2_DeleteKeepsBalance ==
    (op.name = "delete" /\ err = "none") => Balanced(Now)

\* C3: in a tree built by the constructor and inserts only, after each
\* insert every node has |h(right) - h(left)| <= 1, h being the height of
\* the shape.
C3_InsertKeepsBalance ==
    (op.name \in {"init", "insert"} /\ err = "none") => Balanced(Now)

\* C4: after an insert or a delete that returns normally the cached height
\* of every node is 1 + the larger cached height of its children, a
\* NullNode counting -1.
C4_HeightsCached ==
    (op.name \in {"insert", "delete"} /\ err = "none") => HeightsCached(Now)

\* C5: after an insert or a delete that returns normally every value in the
\* left subtree of a node is greater than the node's value and every value
\* in its right subtree is smaller.
C5_MirroredOrder ==
    (op.name \in {"insert", "delete"} /\ err = "none") => Ordered(Now)

\* C6: after an insert or a delete that returns normally no two nodes hold
\* the same value and every count is at least 1.
C6_OneNodePerValue ==
    (op.name \in {"insert", "delete"} /\ err = "none") =>
        /\ \A n, m \in TreeOf(Now) : nodes[n].value = nodes[m].value => n = m
        /\ \A n \in TreeOf(Now) : nodes[n].count >= 1
        /\ Cardinality(TreeOf(Now)) = Cardinality(ValuesOf(Now))

\* C7: insert(v) on a non-empty tree returns, raises the multiplicity of v
\* by 1 and leaves every other multiplicity; it creates one node when v was
\* absent and none when v was present.
C7_InsertAddsOne ==
    (op.name = "insert" /\ pre.root # NullNode) =>
        /\ err = "none"
        /\ Mult(Now, op.value) = Mult(pre, op.value) + 1
        /\ \A w \in (ValuesOf(pre) \cup ValuesOf(Now)) \ {op.value} :
               Mult(Now, w) = Mult(pre, w)
        /\ Cardinality(TreeOf(Now)) =
               Cardinality(TreeOf(pre)) + (IF op.value \in ValuesOf(pre) THEN 0 ELSE 1)

\* C8: a delete of a value no node holds raises ValueError and leaves the
\* root and every node's value, count, cached height, children and parent
\* as they were.
C8_DeleteAbsentRaisesAndKeepsTree ==
    (op.name = "delete" /\ op.value \notin ValuesOf(pre)) =>
        /\ err = "ValueError"
        /\ nodes = pre.nodes
        /\ root = pre.root

\* C8 happens: a delete of an absent value on a tree of two nodes or more.
C8_Witness ==
    /\ op.name = "delete" /\ op.value \notin ValuesOf(pre)
    /\ Cardinality(TreeOf(pre)) >= 2
    /\ err = "ValueError"

\* C9: insert(v) of an absent v followed by delete(v) returns and leaves
\* the multiset the insert started from, in a tree with heights cached,
\* balanced, ordered and with consistent parent links.
C9_RoundTrip ==
    trip.on =>
        /\ err = "none"
        /\ ValuesOf(Now) = trip.values
        /\ \A w \in trip.values : Mult(Now, w) = trip.mult[w]
        /\ HeightsCached(Now) /\ Balanced(Now) /\ Ordered(Now)
        /\ ParentsConsistent(Now)

\* C10: insert(v) never raises and leaves v in the tree, also when the tree
\* has become empty.
C10_InsertNeverFails ==
    op.name = "insert" => (err = "none" /\ op.value \in ValuesOf(Now))

\* Every node's balance attribute is within [-1, 1].
CachedBalanced(t) == \A n \in TreeOf(t) : Abs(balance(t, n)) <= 1

\* The tree holds exactly the values V, each in one node of count 1.
HoldsOnce(t, V) ==
    /\ ValuesOf(t) = V
    /\ Cardinality(TreeOf(t)) = Cardinality(V)
    /\ \A n \in TreeOf(t) : t.nodes[n].count = 1

\* C11: in the script, each insertion of AVL(lst) returns and leaves every
\* node's balance within [-1, 1] and the values inserted so far in one node
\* of count 1 each; each of the deletes of 41, 55, 20, 29 returns and leaves
\* the heights cached, the balances within [-1, 1], the mirrored order and
\* the remaining values once each; the last leaves {65, 50, 11, 26, 23}.
C11_DemoScenario ==
    /\ pc \in 1..AtBuilt =>
          /\ err = "none"
          /\ CachedBalanced(Now) /\ Balanced(Now)
          /\ HoldsOnce(Now, {lst[i] : i \in 1..pc})
    /\ pc \in (AtBuilt + 1)..AtDeleted =>
          /\ err = "none"
          /\ HeightsCached(Now) /\ CachedBalanced(Now) /\ Balanced(Now)
          /\ Ordered(Now)
          /\ HoldsOnce(Now, {lst[i] : i \in 1..AtBuilt}
                               \ {deleted[i] : i \in 1..(pc - AtBuilt)})
    /\ pc = AtDeleted => ValuesOf(Now) = {65, 50, 11, 26, 23}

\* The script has deleted 29 and the tree holds five values.
C11_Witness ==
    /\ pc = AtDeleted /\ op = [name |-> "delete", value |-> 29, all |-> FALSE]
    /\ err = "none" /\ Cardinality(TreeOf(Now)) = 5

RECURSIVE Reachable(_, _)
Reachable(t, S) ==
    Let((S \cup {t.nodes[n].left : n \in S \ {NullNode}}
           \cup {t.nodes[n].right : n \in S \ {NullNode}}) \ {NullNode}, LAMBDA T :
    IF T = S THEN S ELSE Reachable(t, T))

\* C13: the traversal of a non-empty tree yields the nodes reachable from
\* the root, each once, the root first, and for every node the node before
\* the nodes below its left child and these before the nodes below its
\* right child.
C13_TraversalIsPreorder ==
    root # NullNode =>
        \E pr \in {Preorder(Now, root)} :
            /\ {pr[i] : i \in 1..Len(pr)} = Reachable(Now, {root})
            /\ \A i, j \in 1..Len(pr) : i # j => pr[i] # pr[j]
            /\ pr[1] = root
            /\ \A i \in 1..Len(pr) :
                  \E L \in {Reachable(Now, {nodes[pr[i]].left})},
                     R \in {Reachable(Now, {nodes[pr[i]].right})} :
                      \A j \in 1..Len(pr) :
                          /\ pr[j] \in L => i < j
                          /\ pr[j] \in R =>
                                i < j /\ \A k \in 1..Len(pr) : pr[k] \in L => k < j

\* A tree of three nodes, the root with both children, has been traversed:
\* the root, its left child, its right child.
C13_Witness ==
    /\ root # NullNode /\ err = "none"
    /\ nodes[root].left # NullNode /\ nodes[root].right # NullNode
    /\ Preorder(Now, root) = <<root, nodes[root].left, nodes[root].right>>

\* The nodes of the tree of pre that hold the value of the last call.
Holders == {n \in TreeOf(pre) : pre.nodes[n].value = op.value}

\* The tree is the tree of pre but for the count of the node n, which has
\* changed by d: the same objects, root, links, values and cached heights.
OnlyCountChanged(n, d) ==
    /\ Len(nodes) = Len(pre.nodes)
    /\ root = pre.root
    /\ \A m \in 1..Len(nodes) :
          nodes[m] = [pre.nodes[m] EXCEPT !.count = IF m = n THEN @ + d ELSE @]

\* C14: an insert of a value the tree holds returns and changes the count
\* of the node holding it, and nothing else: not the shape, the root or the
\* cached height of any node.
C14_InsertPresentChangesOnlyCount ==
    (op.name = "insert" /\ Holders # {}) =>
        /\ err = "none"
        /\ \E n \in Holders : OnlyCountChanged(n, 1)

\* The links and the value of every node, and the root, are those of pre.
LinksKept ==
    /\ Len(nodes) = Len(pre.nodes)
    /\ root = pre.root
    /\ \A m \in 1..Len(nodes) :
          /\ nodes[m].left = pre.nodes[m].left
          /\ nodes[m].right = pre.nodes[m].right
          /\ nodes[m].parent = pre.nodes[m].parent
          /\ nodes[m].value = pre.nodes[m].value

\* C15: delete(v, all=False), one node holding v and its count above 1,
\* returns and lowers that count by 1; no node is removed, and the root,
\* the links and the values stay as they were (so nothing was rotated).
C15_DeleteOfRepeatedOnlyDecrements ==
    (/\ op.name = "delete" /\ ~op.all
     /\ Cardinality(Holders) = 1
     /\ \A n \in Holders : pre.nodes[n].count > 1) =>
        /\ err = "none"
        /\ LinksKept
        /\ \A m \in 1..Len(nodes) :
              nodes[m].count = pre.nodes[m].count - IF m \in Holders THEN 1 ELSE 0

\* The last call run again from the tree it started from, the objects
\* keeping their identities and the calls of rotate noted.
Start == [nodes |-> pre.nodes, root |-> pre.root, err |-> "none", ret |-> 0,
          calls |-> <<>>]

Ran ==
    IF op.name = "insert" THEN insert(Start, op.value)
    ELSE IF op.name = "delete" THEN delete(Start, op.value, op.all)
    ELSE Start

\* The node at which the descent of AVL._delete from n meets the value v, or
\* the NullNode it ends at.
RECURSIVE Find(_, _, _)
Find(t, n, v) ==
    IF n = NullNode \/ t.nodes[n].value = v THEN n
    ELSE IF v < t.nodes[n].value THEN Find(t, t.nodes[n].right, v)
    ELSE Find(t, t.nodes[n].left, v)

\* The last call was a delete that returned and that met its value at the
\* node f, a node with two children that it had to remove (all=True, or a
\* count of 1).
TwoChildRemoval(f) ==
    /\ op.name = "delete" /\ err = "none"
    /\ f # NullNode
    /\ pre.nodes[f].left # NullNode /\ pre.nodes[f].right # NullNode
    /\ (op.all \/ pre.nodes[f].count <= 1)

\* C16 as stated: the value left in the two-child node is that of the
\* left-most node of its right subtree if the right subtree's height is
\* greater than or equal to the left subtree's, and that of the right-most
\* node of its left subtree only if the left subtree is strictly taller.
C16_ReplacementRightIfTallerOrEqual ==
    \E f \in {Find(pre, pre.root, op.value)} :
        TwoChildRemoval(f) =>
            Ran.nodes[f].value =
                IF Height(pre, pre.nodes[f].right) >= Height(pre, pre.nodes[f].left)
                THEN pre.nodes[iter_left(pre, pre.nodes[f].right)].value
                ELSE pre.nodes[iter_right(pre, pre.nodes[f].left)].value

\* C16 amended: the value left in the two-child node is that of the
\* left-most node of its right subtree only if the right subtree's height
\* is strictly greater than the left subtree's, and that of the right-most
\* node of its left subtree otherwise, equal heights included.
C16_ReplacementRightOnlyIfTaller ==
    \E f \in {Find(pre, pre.root, op.value)} :
        TwoChildRemoval(f) =>
            Ran.nodes[f].value =
                IF Height(pre, pre.nodes[f].right) > Height(pre, pre.nodes[f].left)
                THEN pre.nodes[iter_left(pre, pre.nodes[f].right)].value
                ELSE pre.nodes[iter_right(pre, pre.nodes[f].left)].value

\* A two-child node with subtrees of equal height has been removed and holds
\* the value of the right-most node of its left subtree.
C16_Witness ==
    \E f \in {Find(pre, pre.root, op.value)} :
        /\ TwoChildRemoval(f)
        /\ Height(pre, pre.nodes[f].right) = Height(pre, pre.nodes[f].left)
        /\ Ran.nodes[f].value = pre.nodes[iter_right(pre, pre.nodes[f].left)].value
        /\ Ran.nodes[f].value # pre.nodes[iter_left(pre, pre.nodes[f].right)].value

\* The node that is, when the call c of rotate returns, where c.node was
\* when it began: the root, or the same child of the same parent.
Occupant(c) ==
    LET p == c.was.nodes[c.node].parent
    IN IF p = None THEN c.now.root
       ELSE IF c.was.nodes[p].left = c.node THEN c.now.nodes[p].left
       ELSE c.now.nodes[p].right

\* C17: every call of rotate(node) made on the way back up by the last
\* insert or delete, node having a balance of absolute value 2 or more,
\* returned with another node in node's place (a rotation was performed)
\* and that node's balance within [-1, 1].
C17_RotateRestoresBalance ==
    \E calls \in {Ran.calls} :
        \A i \in 1..Len(calls) :
            \E c \in {calls[i]} :
                Abs(balance(c.was, c.node)) >= 2 =>
                    /\ c.err = "none"
                    /\ Occupant(c) # c.node
                    /\ Abs(balance(c.now, Occupant(c))) <= 1

\* The cached height of every node below n (n included) is 1 + the larger
\* of its children's cached heights.
HeightsCachedBelow(t, n) ==
    \A m \in Subtree(t, n) :
        t.nodes[m].height =
            1 + Max(Height(t, t.nodes[m].left), Height(t, t.nodes[m].right))

\* C18: every call of rotate(node) made by the last insert or delete that
\* found the cached heights correct in the subtree of node left them
\* correct in that subtree, under the node now in node's place.
C18_RotateKeepsHeightsCached ==
    \E calls \in {Ran.calls} :
        \A i \in 1..Len(calls) :
            \E c \in {calls[i]} :
                HeightsCachedBelow(c.was, c.node) =>
                    HeightsCachedBelow(c.now, Occupant(c))

\* Left subtree, node, right subtree: the nodes below n in order.
RECURSIVE Inorder(_, _)
Inorder(t, n) ==
    IF n = NullNode THEN <<>>
    ELSE Inorder(t, t.nodes[n].left) \o <<n>> \o Inorder(t, t.nodes[n].right)

\* The nodes the call c of rotate rotated: c.node and the node that took its
\* place, and in a double rotation the node that was between them.
Rotated(c) ==
    LET y == Occupant(c)
    IN IF c.was.nodes[y].parent = c.node THEN {c.node, y}
       ELSE {c.node, c.was.nodes[y].parent, y}

\* The call c of rotate kept the nodes, their values and counts and the
\* sequence of the tree in order, and changed no link but those of the
\* rotated nodes, the parent links of the subtrees that changed owner, and
\* the slot of the former parent (or the root) that held c.node.
RotationIsLocal(c) ==
    LET x == c.node
        p == c.was.nodes[x].parent
        R == Rotated(c)
        Moved == (UNION {{c.was.nodes[r].left, c.was.nodes[r].right} : r \in R}
                     \ {NullNode}) \ R
    IN /\ c.err = "none"
       /\ Len(c.now.nodes) = Len(c.was.nodes)
       /\ TreeOf(c.now) = TreeOf(c.was)
       /\ \A n \in 1..Len(c.was.nodes) :
             /\ c.now.nodes[n].value = c.was.nodes[n].value
             /\ c.now.nodes[n].count = c.was.nodes[n].count
       /\ Inorder(c.now, c.now.root) = Inorder(c.was, c.was.root)
       /\ Occupant(c) \in Subtree(c.was, x)
       /\ Cardinality(R) \in {2, 3}
       /\ \A r \in R : r = x \/ c.was.nodes[r].parent \in R
       /\ p # None => c.now.root = c.was.root
       /\ \A n \in (1..Len(c.was.nodes)) \ R :
             /\ n # p => /\ c.now.nodes[n].left = c.was.nodes[n].left
                         /\ c.now.nodes[n].right = c.was.nodes[n].right
             /\ n \notin Moved => c.now.nodes[n].parent = c.was.nodes[n].parent
             /\ n = p =>
                   /\ c.was.nodes[n].left # x =>
                          c.now.nodes[n].left = c.was.nodes[n].left
                   /\ c.was.nodes[n].right # x =>
                          c.now.nodes[n].right = c.was.nodes[n].right

C20_DeleteOfHeldReturns ==
    (op.name = "delete" /\ op.value \in ValuesOf(pre)) => err = "none"

====
